---- MODULE Spec2Model ----
(***************************************************************************)
(* Model of src/src/extract_logs_indexed.js: the date index built by       *)
(* buildIndex over the log file, the cache artifact handled by getIndex,   *)
(* and the bounded-range extraction done by extractLogs.                   *)
(*                                                                         *)
(* A file is a sequence of bytes, a string a sequence of characters        *)
(* (UTF-16 code units).  Characters and bytes are one-character names:     *)
(* an ASCII character and its byte share the name; "LF" and "CR" are the   *)
(* line feed and the carriage return; "e'" is U+00E9, encoded in UTF-8 as  *)
(* the two bytes "C3" "A9"; "FFFD" is the replacement character produced   *)
(* by the decoder for an invalid byte, encoded as "EF" "BF" "BD".          *)
(***************************************************************************)
EXTENDS Integers, Sequences, FiniteSets, TLC

VARIABLES
  logFile,        \* bytes of the file at logFilePath
  indexFile,      \* the file at indexFilePath: [exists, text]
  outputFile,     \* the file at outputFile, per target date: [exists, lines]
  pc,             \* position of the invocation
  targetDate,     \* process.argv[2]
  index,          \* the object `index` (buildIndex) / the value getIndex returns
  currentDate,    \* buildIndex: currentDate
  currentStart,   \* buildIndex: currentStart
  currentOffset,  \* buildIndex: currentOffset
  rlLines,        \* lines the open readline interface has still to deliver
  writeBuffer,    \* lines handed to writeStream.write, not yet in the file
  run,            \* what this invocation did: scanned, wrote, opened, result, failures
  atStart,        \* the files as they were when this invocation started
  prev,           \* the last completed invocation
  runs            \* number of invocations started

vars == <<logFile, indexFile, outputFile, pc, targetDate, index, currentDate,
          currentStart, currentOffset, rlLines, writeBuffer, run, atStart, prev, runs>>

(***************************************************************************)
(* Bounds                                                                  *)
(***************************************************************************)
MaxLines == 3      \* lines of a log in the scanner specification
MaxRunLines == 2   \* lines of a log in the whole-program specification
MaxRuns == 2       \* invocations in the whole-program specification

DateLen == 10      \* line.substring(0, 10)

(***************************************************************************)
(* Text: UTF-8 and readline                                                *)
(***************************************************************************)
Min(a, b) == IF a < b THEN a ELSE b

\* Bytes of one character in UTF-8.
EncodeChar(c) ==
  CASE c = "e'"   -> <<"C3", "A9">>
    [] c = "FFFD" -> <<"EF", "BF", "BD">>
    [] OTHER      -> <<c>>

RECURSIVE Encode(_)
Encode(s) == IF s = <<>> THEN <<>> ELSE EncodeChar(Head(s)) \o Encode(Tail(s))

\* Buffer.byteLength(line, 'utf8')
RECURSIVE byteLength(_)
byteLength(s) == IF s = <<>> THEN 0 ELSE Len(EncodeChar(Head(s))) + byteLength(Tail(s))

\* The utf8 decoding of a read stream: "C3" "A9" is U+00E9, "EF" "BF" "BD" is
\* U+FFFD, and a byte that is not part of a complete sequence becomes U+FFFD.
\* Continued(b, i): byte i is the second or third byte of a complete sequence.
Continued(b, i) ==
  \/ i > 1 /\ b[i] = "A9" /\ b[i - 1] = "C3"
  \/ i > 1 /\ i < Len(b) /\ b[i] = "BF" /\ b[i - 1] = "EF" /\ b[i + 1] = "BD"
  \/ i > 2 /\ b[i] = "BD" /\ b[i - 2] = "EF" /\ b[i - 1] = "BF"

CharAt(b, i) ==
  IF b[i] = "C3" /\ i < Len(b) /\ b[i + 1] = "A9" THEN "e'"
  ELSE IF b[i] \in {"C3", "A9", "EF", "BF", "BD"} THEN "FFFD"
  ELSE b[i]

NotSkipped(c) == c # "skip"

Decode(b) ==
  SelectSeq([i \in 1..Len(b) |-> IF Continued(b, i) THEN "skip" ELSE CharAt(b, i)],
            NotSkipped)

\* readline with crlfDelay: Infinity: a line ends at CR LF, at LF or at CR;
\* what follows the last terminator is a line only when it is not empty.
RECURSIVE SplitLines(_)
SplitLines(s) ==
  IF \A i \in 1..Len(s) : s[i] \notin {"LF", "CR"}
    THEN (IF s = <<>> THEN <<>> ELSE <<s>>)
    ELSE LET i == CHOOSE j \in 1..Len(s) :
                    /\ s[j] \in {"LF", "CR"}
                    /\ \A k \in 1..(j - 1) : s[k] \notin {"LF", "CR"}
             n == IF s[i] = "CR" /\ i < Len(s) /\ s[i + 1] = "LF" THEN 2 ELSE 1
         IN <<SubSeq(s, 1, i - 1)>> \o SplitLines(SubSeq(s, i + n, Len(s)))

\* fs.createReadStream(logFilePath, {encoding: 'utf8'}) read through readline.
ReadAllLines(file) == SplitLines(Decode(file))

\* ReadRangeLines without the end option: from start to the end of the file.
ReadRangeLinesToEnd(file, start, end) ==
  SplitLines(Decode(SubSeq(file, start + 1, Len(file))))

\* fs.createReadStream(logFilePath, {encoding: 'utf8', start, end}) read through
\* readline: bytes start..end inclusive, cut at the end of the file.
ReadRangeLines(file, start, end) ==
  SplitLines(Decode(SubSeq(file, start + 1, Min(end + 1, Len(file)))))

(***************************************************************************)
(* The logs the model draws from                                           *)
(***************************************************************************)
Date(d) == <<"2", "0", "2", "4", "-", "0", "1", "-", "0", d>>
Dates == {Date("1"), Date("2"), Date("3")}

Stamp == <<"T", "0", "0", ":", "0", "0", ":", "0", "0", ".", "0", " ", "-", " ",
           "A", " ", "-", " ">>

\* A record in the documented format, with an ASCII or a two-byte message.
FullLine(d, m) == d \o Stamp \o <<m>>
\* A line that carries a date but not the documented format.
PlainLine(d) == d \o <<" ", "e'">>

DatedLines == UNION {{FullLine(d, "x"), PlainLine(d)} : d \in Dates}
AnyLines == DatedLines \cup {<<>>}

SeqsUpTo(S, n) == UNION {[1..k -> S] : k \in 0..n}

Eol(style) == IF style = "CRLF" THEN <<"CR", "LF">> ELSE <<"LF">>
Styles == {"LF", "CRLF"}

\* The bytes of a file holding `lines`, each followed by the terminator of
\* `style`, the last one only when `trailing`.
RECURSIVE FileBytes(_, _, _)
FileBytes(lines, style, trailing) ==
  IF lines = <<>> THEN <<>>
  ELSE Encode(Head(lines))
       \o (IF Len(lines) > 1 \/ trailing THEN Eol(style) ELSE <<>>)
       \o FileBytes(Tail(lines), style, trailing)

LogsOf(lineSet, n, styles) ==
  {FileBytes(ls, st, tr) : ls \in SeqsUpTo(lineSet, n), st \in styles, tr \in BOOLEAN}

(***************************************************************************)
(* The index object and its JSON text                                      *)
(***************************************************************************)
\* A JavaScript object with string keys, as the sequence of its members in
\* insertion order: assigning to a key it has keeps the member's place.
HasKey(members, k) == \E i \in 1..Len(members) : members[i].key = k
Member(members, k) == members[CHOOSE i \in 1..Len(members) : members[i].key = k]
Keys(members) == {members[i].key : i \in 1..Len(members)}

\* SetMember that widens the range of a key it has instead of replacing it.
SetMemberKeepsStart(members, k, s, e) ==
  IF HasKey(members, k)
    THEN [i \in 1..Len(members) |->
            IF members[i].key = k
              THEN [key |-> k, start |-> members[i].start, end |-> e]
              ELSE members[i]]
    ELSE Append(members, [key |-> k, start |-> s, end |-> e])

\* index[k] = { start: s, end: e }
SetMember(members, k, s, e) ==
  IF HasKey(members, k)
    THEN [i \in 1..Len(members) |->
            IF members[i].key = k THEN [key |-> k, start |-> s, end |-> e]
            ELSE members[i]]
    ELSE Append(members, [key |-> k, start |-> s, end |-> e])

\* A JavaScript value getIndex can return: an object, or null.
Obj(members) == [type |-> "object", members |-> members]
NullValue == [type |-> "null", members |-> <<>>]

\* A JSON text is a sequence of tokens.
Tok(t) == [t |-> t, key |-> <<>>, start |-> 0, end |-> 0]
MemberTok(m) == [t |-> "member", key |-> m.key, start |-> m.start, end |-> m.end]

\* Stringify that leaves out the last member of the object.
StringifyWithoutLast(v) ==
  IF v.type = "null" THEN <<Tok("null")>>
  ELSE <<Tok("{")>> \o [i \in 1..(Len(v.members) - 1) |-> MemberTok(v.members[i])]
       \o <<Tok("}")>>

\* JSON.stringify(index, null, 2)
Stringify(v) ==
  IF v.type = "null" THEN <<Tok("null")>>
  ELSE <<Tok("{")>> \o [i \in 1..Len(v.members) |-> MemberTok(v.members[i])] \o <<Tok("}")>>

\* Whether JSON.parse accepts the text.
Parses(text) ==
  \/ text = <<Tok("null")>>
  \/ /\ Len(text) >= 2
     /\ text[1].t = "{"
     /\ text[Len(text)].t = "}"
     /\ \A i \in 2..(Len(text) - 1) : text[i].t = "member"

RECURSIVE ParseMembers(_, _)
ParseMembers(toks, acc) ==
  IF toks = <<>> THEN acc
  ELSE ParseMembers(Tail(toks),
                    SetMember(acc, Head(toks).key, Head(toks).start, Head(toks).end))

\* JSON.parse(data), for a text it accepts.
Parse(text) ==
  IF text = <<Tok("null")>> THEN NullValue
  ELSE Obj(ParseMembers(SubSeq(text, 2, Len(text) - 1), <<>>))

NoFile == [exists |-> FALSE, text |-> <<>>]
FileOf(text) == [exists |-> TRUE, text |-> text]

(***************************************************************************)
(* transformLine                                                           *)
(***************************************************************************)
Digits == {"0", "1", "2", "3", "4", "5", "6", "7", "8", "9"}
Upper == {"A", "B", "C", "D", "E", "F", "I", "N", "O", "R", "W"}
Spaces == {" "}

\* First position from i on whose character is outside class (Len(s) + 1 if none).
SkipWhile(s, i, class) ==
  CHOOSE j \in i..(Len(s) + 1) :
    /\ (j = Len(s) + 1 \/ s[j] \notin class)
    /\ \A k \in i..(j - 1) : s[k] \in class

AllDigits(s, from, to) == \A k \in from..to : s[k] \in Digits

\* ^(\d{4}-\d{2}-\d{2})T(\d{2}:\d{2}:\d{2})\.\d+\s*-\s*([A-Z]+)\s*-\s*(.*)$
\* The positions the match reaches, or ok = FALSE.
Match(line) ==
  IF ~ /\ Len(line) >= 21
       /\ AllDigits(line, 1, 4) /\ line[5] = "-"
       /\ AllDigits(line, 6, 7) /\ line[8] = "-"
       /\ AllDigits(line, 9, 10) /\ line[11] = "T"
       /\ AllDigits(line, 12, 13) /\ line[14] = ":"
       /\ AllDigits(line, 15, 16) /\ line[17] = ":"
       /\ AllDigits(line, 18, 19) /\ line[20] = "."
       /\ line[21] \in Digits
    THEN [ok |-> FALSE, level |-> <<>>, message |-> <<>>]
  ELSE
    LET n  == Len(line)
        a  == SkipWhile(line, SkipWhile(line, 21, Digits), Spaces)   \* at the first "-"
        b  == SkipWhile(line, a + 1, Spaces)                          \* at the level
        c  == SkipWhile(line, b, Upper)                               \* after the level
        d  == SkipWhile(line, c, Spaces)                              \* at the second "-"
        e  == SkipWhile(line, d + 1, Spaces)                          \* at the message
    IN IF /\ a <= n /\ line[a] = "-"
          /\ b <= n /\ c > b
          /\ d <= n /\ line[d] = "-"
          /\ \A k \in e..n : line[k] \notin {"LF", "CR"}
         THEN [ok |-> TRUE, level |-> SubSeq(line, b, c - 1), message |-> SubSeq(line, e, n)]
         ELSE [ok |-> FALSE, level |-> <<>>, message |-> <<>>]

transformLine(line) ==
  LET m == Match(line)
  IN IF m.ok
       THEN SubSeq(line, 1, 10) \o <<" ">> \o SubSeq(line, 12, 19) \o <<" ">>
            \o m.level \o <<" ">> \o m.message
       ELSE line

(***************************************************************************)
(* buildIndex: the handlers of the readline events                         *)
(***************************************************************************)
NullDate == <<"null">>                       \* let currentDate = null
FalsyOnlyNull(d) == d = NullDate             \* currentDate === null
Falsy(d) == d = NullDate \/ d = <<>>         \* !currentDate

ScanInit == [index |-> <<>>, currentDate |-> NullDate, currentStart |-> 0,
             currentOffset |-> 0]

\* OnLine with the character count of the line in place of its byte length.
OnLineCharCount(st, line) ==
  LET lineByteLength == Len(line) + 1
      lineDate == SubSeq(line, 1, Min(DateLen, Len(line)))
      st1 == IF Falsy(st.currentDate)
               THEN [st EXCEPT !.currentDate = lineDate,
                               !.currentStart = st.currentOffset]
               ELSE st
      st2 == IF lineDate # st1.currentDate
               THEN [st1 EXCEPT
                       !.index = SetMember(st1.index, st1.currentDate,
                                           st1.currentStart, st1.currentOffset - 1),
                       !.currentDate = lineDate,
                       !.currentStart = st1.currentOffset]
               ELSE st1
  IN [st2 EXCEPT !.currentOffset = st2.currentOffset + lineByteLength]

\* rl.on('line', ...)
OnLine(st, line) ==
  LET lineByteLength == byteLength(line) + 1
      lineDate == SubSeq(line, 1, Min(DateLen, Len(line)))
      st1 == IF Falsy(st.currentDate)
               THEN [st EXCEPT !.currentDate = lineDate,
                               !.currentStart = st.currentOffset]
               ELSE st
      st2 == IF lineDate # st1.currentDate
               THEN [st1 EXCEPT
                       !.index = SetMember(st1.index, st1.currentDate,
                                           st1.currentStart, st1.currentOffset - 1),
                       !.currentDate = lineDate,
                       !.currentStart = st1.currentOffset]
               ELSE st1
  IN [st2 EXCEPT !.currentOffset = st2.currentOffset + lineByteLength]

\* OnClose with the current offset itself as the end of the last block.
OnCloseEndAtOffset(st) ==
  IF ~Falsy(st.currentDate)
    THEN SetMember(st.index, st.currentDate, st.currentStart, st.currentOffset)
    ELSE st.index

\* rl.on('close', ...): the index buildIndex resolves with
OnClose(st) ==
  IF ~Falsy(st.currentDate)
    THEN SetMember(st.index, st.currentDate, st.currentStart, st.currentOffset - 1)
    ELSE st.index

RECURSIVE ScanAll(_, _)
ScanAll(st, lines) ==
  IF lines = <<>> THEN OnClose(st) ELSE ScanAll(OnLine(st, Head(lines)), Tail(lines))

\* The index a complete run of buildIndex resolves with.
buildIndex(file) == ScanAll(ScanInit, ReadAllLines(file))

(***************************************************************************)
(* State                                                                   *)
(***************************************************************************)
Targets == {Date("1"), Date("2")}

\* Lines and logs of the whole-program specification.
RunLines == {FullLine(Date("1"), "x"), PlainLine(Date("1")), FullLine(Date("2"), "e'")}
RunLogs == LogsOf(RunLines, MaxRunLines, {"LF"})

\* Logs of the scanner specification.
ScanLogs == LogsOf(AnyLines, MaxLines, Styles)

NoOutput == [exists |-> FALSE, lines |-> <<>>]
FreshRun == [scanned |-> FALSE, wrote |-> FALSE, opened |-> FALSE, result |-> "none",
             readFailed |-> FALSE, scanFailed |-> FALSE, writeFailed |-> FALSE]
NoPrev == [valid |-> FALSE, target |-> <<>>, index |-> NullValue, indexFile |-> NoFile,
           output |-> NoOutput, run |-> FreshRun]

InitWith(logs) ==
  /\ logFile \in logs
  /\ indexFile = NoFile
  /\ outputFile = [t \in Targets |-> NoOutput]
  /\ pc = "idle"
  /\ targetDate = <<>>
  /\ index = Obj(<<>>)
  /\ currentDate = NullDate
  /\ currentStart = 0
  /\ currentOffset = 0
  /\ rlLines = <<>>
  /\ writeBuffer = <<>>
  /\ run = FreshRun
  /\ atStart = [indexFile |-> NoFile, outputFile |-> [t \in Targets |-> NoOutput]]
  /\ prev = NoPrev
  /\ runs = 0

Init == InitWith(RunLogs)
InitScan == InitWith(ScanLogs)

files == <<logFile, indexFile, outputFile>>
scanner == <<currentDate, currentStart, currentOffset>>

(***************************************************************************)
(* One invocation: extractLogs()                                           *)
(***************************************************************************)
\* node extract_logs_indexed.js <targetDate>
Start(t) ==
  /\ pc = "idle"
  /\ runs < MaxRuns
  /\ pc' = "getIndex"
  /\ targetDate' = t
  /\ runs' = runs + 1
  /\ run' = FreshRun
  /\ atStart' = [indexFile |-> indexFile, outputFile |-> outputFile]
  /\ index' = Obj(<<>>)
  /\ currentDate' = NullDate
  /\ currentStart' = 0
  /\ currentOffset' = 0
  /\ rlLines' = <<>>
  /\ writeBuffer' = <<>>
  /\ UNCHANGED <<files, prev>>

\* getIndex falls through to buildIndex(): the streams are created.
BeginScan ==
  /\ pc' = "scan"
  /\ index' = Obj(ScanInit.index)
  /\ currentDate' = ScanInit.currentDate
  /\ currentStart' = ScanInit.currentStart
  /\ currentOffset' = ScanInit.currentOffset
  /\ rlLines' = ReadAllLines(logFile)
  /\ UNCHANGED <<files, targetDate, writeBuffer, atStart, prev, runs>>

\* LoadIndex with a comparison against the current log: an artifact that is
\* not the index of the log is rebuilt.
LoadIndexValidating ==
  /\ pc = "getIndex"
  /\ indexFile.exists
  /\ Parses(indexFile.text)
  /\ IF Parse(indexFile.text) = Obj(buildIndex(logFile))
       THEN /\ index' = Parse(indexFile.text)
            /\ pc' = "lookup"
            /\ UNCHANGED <<files, targetDate, scanner, rlLines, writeBuffer, run,
                           atStart, prev, runs>>
       ELSE /\ run' = [run EXCEPT !.scanned = TRUE]
            /\ BeginScan

\* getIndex: the artifact exists, is read and parses; its value is returned.
LoadIndex ==
  /\ pc = "getIndex"
  /\ indexFile.exists
  /\ Parses(indexFile.text)
  /\ index' = Parse(indexFile.text)
  /\ pc' = "lookup"
  /\ UNCHANGED <<files, targetDate, scanner, rlLines, writeBuffer, run, atStart, prev, runs>>

\* fs.existsSync(indexFilePath) is false.
CacheAbsent ==
  /\ pc = "getIndex"
  /\ ~indexFile.exists
  /\ run' = [run EXCEPT !.scanned = TRUE]
  /\ BeginScan

\* JSON.parse throws; the catch logs and falls through.
CacheCorrupt ==
  /\ pc = "getIndex"
  /\ indexFile.exists
  /\ ~Parses(indexFile.text)
  /\ run' = [run EXCEPT !.scanned = TRUE]
  /\ BeginScan

\* fs.readFileSync throws; the catch logs and falls through.
CacheUnreadable ==
  /\ pc = "getIndex"
  /\ indexFile.exists
  /\ run' = [run EXCEPT !.scanned = TRUE, !.readFailed = TRUE]
  /\ BeginScan

ScanState == [index |-> index.members, currentDate |-> currentDate,
              currentStart |-> currentStart, currentOffset |-> currentOffset]

\* buildIndex: one 'line' event.
ScanLine ==
  /\ pc = "scan"
  /\ rlLines # <<>>
  /\ LET st == OnLine(ScanState, Head(rlLines))
     IN /\ index' = Obj(st.index)
        /\ currentDate' = st.currentDate
        /\ currentStart' = st.currentStart
        /\ currentOffset' = st.currentOffset
  /\ rlLines' = Tail(rlLines)
  /\ UNCHANGED <<files, pc, targetDate, writeBuffer, run, atStart, prev, runs>>

\* buildIndex: the 'close' event resolves the promise.
ScanClose ==
  /\ pc = "scan"
  /\ rlLines = <<>>
  /\ index' = Obj(OnClose(ScanState))
  /\ pc' = "persist"
  /\ UNCHANGED <<files, targetDate, scanner, rlLines, writeBuffer, run, atStart, prev, runs>>

\* ScanError resolving with the index built so far instead of rejecting.
ScanErrorResolves ==
  /\ pc = "scan"
  /\ pc' = "persist"
  /\ run' = [run EXCEPT !.scanFailed = TRUE]
  /\ UNCHANGED <<files, targetDate, index, scanner, rlLines, writeBuffer, atStart, prev, runs>>

\* buildIndex: the 'error' event (the log cannot be opened, or a read fails)
\* rejects; getIndex and extractLogs propagate it to the catch of extractLogs.
ScanError ==
  /\ pc = "scan"
  /\ pc' = "done"
  /\ run' = [run EXCEPT !.result = "error", !.scanFailed = TRUE]
  /\ UNCHANGED <<files, targetDate, index, scanner, rlLines, writeBuffer, atStart, prev, runs>>

\* getIndex: fs.writeFileSync(indexFilePath, JSON.stringify(index, null, 2)).
WriteIndex ==
  /\ pc = "persist"
  /\ indexFile' = FileOf(Stringify(index))
  /\ run' = [run EXCEPT !.wrote = TRUE]
  /\ pc' = "lookup"
  /\ UNCHANGED <<logFile, outputFile, targetDate, index, scanner, rlLines, writeBuffer,
                 atStart, prev, runs>>

\* What a failed writeFileSync can leave: the file as it was (the open failed),
\* or a truncated file holding a strict prefix of the text (the write failed).
AfterFailedWrite(old, text) ==
  {old} \cup {FileOf(SubSeq(text, 1, k)) : k \in 0..(Len(text) - 1)}

\* WriteIndexFails with the exception propagated to the catch of extractLogs.
WriteIndexFailsAborts ==
  /\ pc = "persist"
  /\ indexFile' \in AfterFailedWrite(indexFile, Stringify(index))
  /\ run' = [run EXCEPT !.writeFailed = TRUE, !.result = "error"]
  /\ pc' = "done"
  /\ UNCHANGED <<logFile, outputFile, targetDate, index, scanner, rlLines, writeBuffer,
                 atStart, prev, runs>>

\* getIndex: fs.writeFileSync throws; the catch logs and the index is returned.
WriteIndexFails ==
  /\ pc = "persist"
  /\ indexFile' \in AfterFailedWrite(indexFile, Stringify(index))
  /\ run' = [run EXCEPT !.writeFailed = TRUE]
  /\ pc' = "lookup"
  /\ UNCHANGED <<logFile, outputFile, targetDate, index, scanner, rlLines, writeBuffer,
                 atStart, prev, runs>>

\* extractLogs: index[targetDate] on null throws a TypeError, caught and logged.
LookupThrows ==
  /\ pc = "lookup"
  /\ index.type = "null"
  /\ run' = [run EXCEPT !.result = "error"]
  /\ pc' = "done"
  /\ UNCHANGED <<files, targetDate, index, scanner, rlLines, writeBuffer, atStart, prev, runs>>

\* NoLogs with the write stream created before the lookup.
NoLogsTruncating ==
  /\ pc = "lookup"
  /\ index.type = "object"
  /\ ~HasKey(index.members, targetDate)
  /\ outputFile' = [outputFile EXCEPT ![targetDate] = [exists |-> TRUE, lines |-> <<>>]]
  /\ run' = [run EXCEPT !.result = "nologs"]
  /\ pc' = "done"
  /\ UNCHANGED <<logFile, indexFile, targetDate, index, scanner, rlLines, writeBuffer,
                 atStart, prev, runs>>

\* extractLogs: !index[targetDate]: "No logs found", return.
NoLogs ==
  /\ pc = "lookup"
  /\ index.type = "object"
  /\ ~HasKey(index.members, targetDate)
  /\ run' = [run EXCEPT !.result = "nologs"]
  /\ pc' = "done"
  /\ UNCHANGED <<files, targetDate, index, scanner, rlLines, writeBuffer, atStart, prev, runs>>

\* extractLogs: the read stream over [start, end] and the write stream are created.
ExtractOpen ==
  /\ pc = "lookup"
  /\ index.type = "object"
  /\ HasKey(index.members, targetDate)
  /\ LET m == Member(index.members, targetDate)
     IN rlLines' = ReadRangeLines(logFile, m.start, m.end)
  /\ outputFile' = [outputFile EXCEPT ![targetDate] = [exists |-> TRUE, lines |-> <<>>]]
  /\ run' = [run EXCEPT !.opened = TRUE]
  /\ pc' = "extract"
  /\ UNCHANGED <<logFile, indexFile, targetDate, index, scanner, writeBuffer, atStart,
                 prev, runs>>

\* ExtractLine with the policy of the full-scan variant: a line the pattern
\* does not match is dropped.
ExtractLineDropsUnmatched ==
  /\ pc = "extract"
  /\ rlLines # <<>>
  /\ writeBuffer' = IF Match(Head(rlLines)).ok
                      THEN Append(writeBuffer, transformLine(Head(rlLines)))
                      ELSE writeBuffer
  /\ rlLines' = Tail(rlLines)
  /\ UNCHANGED <<files, pc, targetDate, index, scanner, run, atStart, prev, runs>>

\* extractLogs: one turn of the for await loop.
ExtractLine ==
  /\ pc = "extract"
  /\ rlLines # <<>>
  /\ writeBuffer' = Append(writeBuffer, transformLine(Head(rlLines)))
  /\ rlLines' = Tail(rlLines)
  /\ UNCHANGED <<files, pc, targetDate, index, scanner, run, atStart, prev, runs>>

\* The write stream hands its oldest buffered line to the file.
SinkAccept ==
  /\ pc \in {"extract", "ending"}
  /\ writeBuffer # <<>>
  /\ outputFile' = [outputFile EXCEPT
                      ![targetDate].lines = Append(@, Head(writeBuffer))]
  /\ writeBuffer' = Tail(writeBuffer)
  /\ UNCHANGED <<logFile, indexFile, pc, targetDate, index, scanner, rlLines, run,
                 atStart, prev, runs>>

\* extractLogs: the loop is over, writeStream.end(...).
ExtractEnd ==
  /\ pc = "extract"
  /\ rlLines = <<>>
  /\ pc' = "ending"
  /\ UNCHANGED <<files, targetDate, index, scanner, rlLines, writeBuffer, run, atStart,
                 prev, runs>>

\* The write stream has flushed: the callback of end() runs.
Finish ==
  /\ pc = "ending"
  /\ writeBuffer = <<>>
  /\ run' = [run EXCEPT !.result = "extracted"]
  /\ pc' = "done"
  /\ UNCHANGED <<files, targetDate, index, scanner, rlLines, writeBuffer, atStart, prev, runs>>

\* The process exits.
Exit ==
  /\ pc = "done"
  /\ pc' = "idle"
  /\ prev' = [valid |-> TRUE, target |-> targetDate, index |-> index,
              indexFile |-> indexFile, output |-> outputFile[targetDate],
              run |-> run]
  /\ UNCHANGED <<files, targetDate, index, scanner, rlLines, writeBuffer, run, atStart, runs>>

(***************************************************************************)
(* The environment, between invocations                                    *)
(***************************************************************************)
\* The log is replaced by another version.  (After a step of the environment
\* the next invocation is not compared with the previous one.)
ModifyLog ==
  /\ pc = "idle"
  /\ runs < MaxRuns
  /\ logFile' \in RunLogs \ {logFile}
  /\ prev' = NoPrev
  /\ UNCHANGED <<indexFile, outputFile, pc, targetDate, index, scanner, rlLines,
                 writeBuffer, run, atStart, runs>>

\* Texts that are not the serialization of a mapping: the empty file, an
\* opening brace alone, and the JSON text null.
ForeignTexts == {<<>>, <<Tok("{")>>, <<Tok("null")>>}

\* The artifact is overwritten by something else.
DamageCache ==
  /\ pc = "idle"
  /\ runs < MaxRuns
  /\ indexFile' \in {FileOf(t) : t \in ForeignTexts} \ {indexFile}
  /\ prev' = NoPrev
  /\ UNCHANGED <<logFile, outputFile, pc, targetDate, index, scanner, rlLines,
                 writeBuffer, run, atStart, runs>>

\* The artifact is removed.
DeleteCache ==
  /\ pc = "idle"
  /\ runs < MaxRuns
  /\ indexFile.exists
  /\ indexFile' = NoFile
  /\ prev' = NoPrev
  /\ UNCHANGED <<logFile, outputFile, pc, targetDate, index, scanner, rlLines,
                 writeBuffer, run, atStart, runs>>

(***************************************************************************)
(* Specifications                                                          *)
(***************************************************************************)
Next ==
  \/ \E t \in Targets : Start(t)
  \/ LoadIndex
  \/ CacheAbsent
  \/ CacheCorrupt
  \/ CacheUnreadable
  \/ ScanLine
  \/ ScanClose
  \/ ScanError
  \/ WriteIndex
  \/ WriteIndexFails
  \/ LookupThrows
  \/ NoLogs
  \/ ExtractOpen
  \/ ExtractLine
  \/ SinkAccept
  \/ ExtractEnd
  \/ Finish
  \/ Exit
  \/ ModifyLog
  \/ DamageCache
  \/ DeleteCache

\* The whole program with its environment, over small logs.
Spec == Init /\ [][Next]_vars

NextScan ==
  \/ \E t \in Targets : Start(t)
  \/ CacheAbsent
  \/ ScanLine
  \/ ScanClose

\* A first invocation up to the end of buildIndex, over all logs of MaxLines lines.
SpecScan == InitScan /\ [][NextScan]_vars

(***************************************************************************)
(* The lines of a log, read off its bytes                                  *)
(***************************************************************************)
\* Positions (from 1) of the last byte of each line terminator.
TermEnds(f) ==
  {i \in 1..Len(f) : \/ f[i] = "LF"
                     \/ f[i] = "CR" /\ ~(i < Len(f) /\ f[i + 1] = "LF")}

\* Positions of the first byte of each line.
LineStarts(f) ==
  (IF f = <<>> THEN {} ELSE {1}) \cup {i + 1 : i \in {j \in TermEnds(f) : j < Len(f)}}

\* Position of the last byte of the line that starts at s, terminator included.
LineLast(f, s) ==
  IF \E e \in TermEnds(f) : e >= s
    THEN CHOOSE e \in TermEnds(f) : e >= s /\ \A x \in TermEnds(f) : x >= s => e <= x
    ELSE Len(f)

\* First byte of the line that holds byte i.
LineStartOf(f, i) ==
  CHOOSE s \in LineStarts(f) : s <= i /\ \A x \in LineStarts(f) : x <= i => x <= s

NotTerminator(c) == c \notin {"LF", "CR"}

\* The text of the line that starts at s.
LineText(f, s) == SelectSeq(Decode(SubSeq(f, s, LineLast(f, s))), NotTerminator)

KeyOf(line) == SubSeq(line, 1, Min(DateLen, Len(line)))
KeyAt(f, s) == KeyOf(LineText(f, s))

\* The k-th smallest element of a set of numbers.
Nth(S, k) == CHOOSE x \in S : Cardinality({y \in S : y <= x}) = k
Ascending(S) == [k \in 1..Cardinality(S) |-> Nth(S, k)]

\* The lines of the log in file order, and those of one date.
LogLines(f) == [k \in 1..Cardinality(LineStarts(f)) |-> LineText(f, Nth(LineStarts(f), k))]
LinesOfDate(f, key) ==
  LET starts == {s \in LineStarts(f) : KeyAt(f, s) = key}
  IN [k \in 1..Cardinality(starts) |-> LineText(f, Nth(starts, k))]

Rank(d) == IF d = Date("1") THEN 1 ELSE IF d = Date("2") THEN 2 ELSE 3

\* Every line carries a date of the calendar.
Dated(f) == \A s \in LineStarts(f) : KeyAt(f, s) \in Dates
\* Sorted ascending by the date prefix.
Sorted(f) ==
  /\ Dated(f)
  /\ \A s, t \in LineStarts(f) : s < t => Rank(KeyAt(f, s)) <= Rank(KeyAt(f, t))
\* Well-formed: dated lines, each ended by a line feed (the last one possibly
\* not terminated).
WellFormed(f) == Dated(f) /\ \A i \in 1..Len(f) : f[i] # "CR"

\* buildIndex has resolved.
Built == pc = "persist"

(***************************************************************************)
(* C1 - C4: the index of a log                                             *)
(***************************************************************************)
\* C1: for a sorted, well-formed log, the index has exactly the dates of the
\* log as keys, and the bounded read of [start, end] of each key, split into
\* lines, gives the lines of the log with that date, all of them, in order.
C1_RoundTrip ==
  (Built /\ Sorted(logFile) /\ WellFormed(logFile)) =>
    /\ Keys(index.members) = {KeyAt(logFile, s) : s \in LineStarts(logFile)}
    /\ \A i \in 1..Len(index.members) :
         LET m == index.members[i]
         IN ReadRangeLines(logFile, m.start, m.end) = LinesOfDate(logFile, m.key)

\* Three lines, two dates, a line whose byte length exceeds its character count.
C1_Witness ==
  /\ Built /\ Sorted(logFile) /\ WellFormed(logFile)
  /\ Len(index.members) = 2
  /\ Len(LinesOfDate(logFile, Date("1"))) = 2
  /\ \E i \in 1..Len(logFile) : logFile[i] = "C3"
  /\ ReadRangeLines(logFile, index.members[2].start, index.members[2].end)
       = <<FullLine(Date("2"), "x")>>

\* C2: for a sorted log of dated lines with any terminator, every range of
\* the index starts at the first byte of a line, ends at the last byte of a
\* line terminator, holds only lines of its key, and the lines holding the
\* bytes before start and after end have another key.
C2_OffsetCorrectness ==
  (Built /\ Sorted(logFile)) =>
    \A i \in 1..Len(index.members) :
      LET m == index.members[i]
          f == logFile
      IN /\ m.start + 1 \in LineStarts(f)
         /\ m.end + 1 \in TermEnds(f)
         /\ \A s \in LineStarts(f) : (m.start + 1 <= s /\ s <= m.end + 1) => KeyAt(f, s) = m.key
         /\ m.start > 0 => KeyAt(f, LineStartOf(f, m.start)) # m.key
         /\ m.end + 2 <= Len(f) => KeyAt(f, LineStartOf(f, m.end + 2)) # m.key

\* C3: a log with exactly one date gives one entry, [0, totalBytes - 1].
C3_SingleDate ==
  (Built /\ Dated(logFile) /\ Cardinality({KeyAt(logFile, s) : s \in LineStarts(logFile)}) = 1) =>
    index.members = <<[key |-> KeyAt(logFile, 1), start |-> 0, end |-> Len(logFile) - 1]>>

\* C4: for a sorted log the ranges partition the file: the first starts at
\* byte 0, each starts right after the previous one ends, the last ends at
\* the last byte.
C4_Partition ==
  (Built /\ Sorted(logFile) /\ logFile # <<>>) =>
    LET ms == index.members
    IN /\ Len(ms) >= 1
       /\ ms[1].start = 0
       /\ \A i \in 1..(Len(ms) - 1) : ms[i].end + 1 = ms[i + 1].start
       /\ ms[Len(ms)].end = Len(logFile) - 1
       /\ \A b \in 0..(Len(logFile) - 1) :
            Cardinality({i \in 1..Len(ms) : ms[i].start <= b /\ b <= ms[i].end}) = 1

(***************************************************************************)
(* C5 - C10: getIndex and the outcome of an invocation                     *)
(***************************************************************************)
\* getIndex has returned a value to extractLogs.
Returned == pc \in {"lookup", "extract", "ending", "done"} /\ ~run.scanFailed

\* The text is the serialization of a mapping; the mapping it spells out.
IsMapping(text) ==
  /\ Len(text) >= 2
  /\ text[1] = Tok("{")
  /\ text[Len(text)] = Tok("}")
  /\ \A i \in 2..(Len(text) - 1) : text[i].t = "member"
TextMembers(text) ==
  [i \in 1..(Len(text) - 2) |->
     [key |-> text[i + 1].key, start |-> text[i + 1].start, end |-> text[i + 1].end]]
IsJson(text) == IsMapping(text) \/ text = <<Tok("null")>>
ContentOf(text) == IF IsMapping(text) THEN Obj(TextMembers(text)) ELSE NullValue

\* C5: when the artifact exists, is read and parses, getIndex returns its
\* content: the scanner has not run, the artifact has not been written, and
\* the log, whatever it has become, plays no part.
C5_CacheHit ==
  (/\ Returned
   /\ atStart.indexFile.exists
   /\ IsJson(atStart.indexFile.text)
   /\ ~run.readFailed) =>
    /\ index = ContentOf(atStart.indexFile.text)
    /\ ~run.scanned /\ ~run.wrote /\ ~run.writeFailed
    /\ indexFile = atStart.indexFile

\* A stale artifact is returned and used after the log has been replaced.
C5_Witness ==
  /\ pc = "done"
  /\ atStart.indexFile.exists /\ IsMapping(atStart.indexFile.text) /\ ~run.readFailed
  /\ index # Obj(buildIndex(logFile))
  /\ run.result = "extracted"

\* C6: when the artifact is absent, unreadable or not the serialization of a
\* mapping, getIndex runs the scanner, replaces the artifact by the
\* serialization of the index of the log and returns that index, a mapping.
C6_CacheMiss ==
  (/\ Returned
   /\ ~run.writeFailed
   /\ \/ ~atStart.indexFile.exists
      \/ run.readFailed
      \/ ~IsMapping(atStart.indexFile.text)) =>
    /\ run.scanned
    /\ index = Obj(buildIndex(logFile))
    /\ indexFile = FileOf(Stringify(index))

Clean(r) == ~r.readFailed /\ ~r.scanFailed /\ ~r.writeFailed

\* C7: of two successive invocations without failure of a file operation,
\* with the log and the artifact untouched in between, the second leaves the
\* artifact the first left, gets an equal index and, for the same target
\* date, the same outcome and output.
C7_Idempotent ==
  (pc = "done" /\ prev.valid /\ Clean(prev.run) /\ Clean(run)) =>
    /\ indexFile = prev.indexFile
    /\ index = prev.index
    /\ targetDate = prev.target =>
         /\ run.result = prev.run.result
         /\ outputFile[targetDate] = prev.output

\* The first invocation built and wrote the index, the second loaded it, and
\* both extracted lines for the same date.
C7_Witness ==
  /\ pc = "done" /\ prev.valid /\ Clean(prev.run) /\ Clean(run)
  /\ prev.run.wrote /\ ~run.scanned
  /\ Len(index.members) = 2
  /\ targetDate = prev.target
  /\ run.result = "extracted"
  /\ outputFile[targetDate].lines # <<>>

\* C8: when the target date is not a key of the index, the invocation ends
\* with the no-logs report, opens no read on the log and leaves the output
\* file as it was; extraction is only ever opened for a key of the index; an
\* empty log gives an empty index and the no-logs report.
C8_NotFound ==
  /\ (pc = "done" /\ ~run.scanFailed /\ index.type = "object"
        /\ ~HasKey(index.members, targetDate)) =>
       /\ run.result = "nologs"
       /\ ~run.opened
       /\ outputFile = atStart.outputFile
  /\ (pc \in {"extract", "ending"} \/ (pc = "done" /\ run.opened)) =>
       HasKey(index.members, targetDate)
  /\ (pc = "done" /\ run.scanned /\ ~run.scanFailed /\ logFile = <<>>) =>
       /\ index.members = <<>>
       /\ run.result = "nologs"

\* The date is not in the index while an output file of an earlier
\* invocation for it exists, and is kept with its lines.
C8_Witness ==
  /\ pc = "done"
  /\ run.result = "nologs"
  /\ outputFile[targetDate].exists
  /\ outputFile[targetDate].lines # <<>>

\* C9: when the scan fails, the invocation ends there with the error: the
\* artifact and the output files are as they were when it started.
C9_ScanFailure ==
  /\ (run.scanFailed /\ pc # "idle") => pc = "done"
  /\ (run.scanFailed /\ pc = "done") =>
       /\ run.result = "error"
       /\ ~run.wrote /\ ~run.writeFailed /\ ~run.opened
       /\ indexFile = atStart.indexFile
       /\ outputFile = atStart.outputFile

\* The scan failed after a block had been recorded, over a corrupt artifact.
C9_Witness ==
  /\ pc = "done"
  /\ run.scanFailed
  /\ Len(index.members) >= 1
  /\ atStart.indexFile.exists

\* What an invocation that rebuilt the index is to end with, given the log,
\* the target date and the output files before it.
ExpectedOutcome(log, t, before) ==
  LET ix == buildIndex(log)
  IN IF HasKey(ix, t)
       THEN LET m == Member(ix, t)
                ls == ReadRangeLines(log, m.start, m.end)
            IN [result |-> "extracted",
                outputFile |-> [before EXCEPT ![t] =
                                  [exists |-> TRUE,
                                   lines |-> [k \in 1..Len(ls) |-> transformLine(ls[k])]]]]
       ELSE [result |-> "nologs", outputFile |-> before]

\* C10: an invocation that rebuilt the index ends with the same index, the
\* same outcome and the same output whether the write of the artifact
\* succeeded or failed.
C10_WriteFailure ==
  (pc = "done" /\ (run.wrote \/ run.writeFailed)) =>
    /\ index = Obj(buildIndex(logFile))
    /\ run.result = ExpectedOutcome(logFile, targetDate, atStart.outputFile).result
    /\ outputFile = ExpectedOutcome(logFile, targetDate, atStart.outputFile).outputFile

\* The write failed, leaving a truncated artifact, and lines were extracted.
C10_Witness ==
  /\ pc = "done"
  /\ run.writeFailed
  /\ indexFile # atStart.indexFile
  /\ run.result = "extracted"
  /\ Len(outputFile[targetDate].lines) = 2

(***************************************************************************)
(* C11 - C12: the extraction loop                                          *)
(***************************************************************************)
\* C11: at every moment at most one line has been read from the log and not
\* yet been accepted by the output sink.
C11_Backpressure == Len(writeBuffer) <= 1

\* The extraction of the target date is open or over.
Extracting == pc \in {"extract", "ending"} \/ (pc = "done" /\ run.opened)

\* The lines of the byte range of the target date in the log.
RangeLines ==
  LET m == Member(index.members, targetDate)
  IN ReadRangeLines(logFile, m.start, m.end)

\* What the pattern makes of a line, for the lines a log of the model and
\* its byte ranges can hold: a line that starts with a date and the whole
\* stamp up to the second dash becomes "<date> <time> <LEVEL> <message>",
\* any other line stays as it is.
StampedUpTo == Len(Date("1") \o Stamp) - 1
IsRecord(l) ==
  /\ Len(l) >= StampedUpTo
  /\ \E d \in Dates : SubSeq(l, 1, StampedUpTo) = SubSeq(d \o Stamp, 1, StampedUpTo)
Readable(l) ==
  SubSeq(l, 1, 10) \o <<" ", "0", "0", ":", "0", "0", ":", "0", "0", " ", "A", " ">>
  \o SubSeq(l, StampedUpTo + 2, Len(l))
ExpectedLine(l) == IF IsRecord(l) THEN Readable(l) ELSE l

\* C12: the lines written so far, in the file and then in the stream's
\* buffer, are the transforms of the first lines of the range, one for one
\* and in order; the lines still to read are the rest of the range; at the
\* end every line of the range has been written.
C12_EveryLineOnce ==
  Extracting =>
    LET src == RangeLines
        out == outputFile[targetDate].lines \o writeBuffer
    IN /\ Len(out) <= Len(src)
       /\ \A k \in 1..Len(out) : out[k] = ExpectedLine(src[k])
       /\ rlLines = SubSeq(src, Len(out) + 1, Len(src))
       /\ pc = "done" => Len(outputFile[targetDate].lines) = Len(src)

\* Two lines of one date, a record and a line the pattern does not match,
\* written in order.
C12_Witness ==
  /\ pc = "done" /\ run.opened
  /\ RangeLines = <<FullLine(Date("1"), "x"), PlainLine(Date("1"))>>
  /\ outputFile[targetDate].lines
       = <<Date("1") \o <<" ", "0", "0", ":", "0", "0", ":", "0", "0", " ", "A", " ", "x">>,
           PlainLine(Date("1"))>>

(***************************************************************************)
(* C13, C14, C16: blocks, ranges and blank lines                           *)
(***************************************************************************)
\* Position of the last line with key k, and of the first line of the run of
\* consecutive lines with one key that ends at line i.
LastOf(L, k) == CHOOSE i \in 1..Len(L) : KeyOf(L[i]) = k /\ \A j \in (i + 1)..Len(L) : KeyOf(L[j]) # k
BlockFirst(L, i) ==
  CHOOSE j \in 1..i :
    /\ \A x \in j..i : KeyOf(L[x]) = KeyOf(L[i])
    /\ j > 1 => KeyOf(L[j - 1]) # KeyOf(L[i])

\* The offset the scanner has reached before line i: one more than the byte
\* length for each earlier line.
RECURSIVE ScanOffset(_, _)
ScanOffset(L, i) == IF i <= 1 THEN 0 ELSE ScanOffset(L, i - 1) + Len(Encode(L[i - 1])) + 1

Scanning == pc \in {"scan", "persist"}
NoCR(f) == \A i \in 1..Len(f) : f[i] # "CR"

\* C13: for a log of dated lines, sorted or not, every date has one entry,
\* the range of its last block as the scanner counts offsets, whatever
\* earlier blocks it has; with line feeds as terminators the read of that
\* range gives the lines of the last block and no line of an earlier one.
C13_LastBlockOnly ==
  (Built /\ Dated(logFile)) =>
    LET L == LogLines(logFile)
    IN /\ Keys(index.members) = {KeyOf(L[i]) : i \in 1..Len(L)}
       /\ \A i \in 1..Len(index.members) :
            LET m == index.members[i]
                last == LastOf(L, m.key)
                first == BlockFirst(L, last)
            IN /\ \A j \in 1..Len(index.members) : index.members[j].key = m.key => j = i
               /\ m.start = ScanOffset(L, first)
               /\ m.end = ScanOffset(L, last + 1) - 1
               /\ NoCR(logFile) =>
                    ReadRangeLines(logFile, m.start, m.end) = SubSeq(L, first, last)

\* A date, another date, the first date again: the first line is in no range.
C13_Witness ==
  /\ Built /\ NoCR(logFile)
  /\ LogLines(logFile) = <<FullLine(Date("1"), "x"), PlainLine(Date("2")), PlainLine(Date("1"))>>
  /\ Len(index.members) = 2
  /\ index.members[1].key = Date("1")
  /\ ReadRangeLines(logFile, index.members[1].start, index.members[1].end)
       = <<PlainLine(Date("1"))>>

\* C14: during the scan and when it is over, every recorded range has
\* 0 <= start <= end < currentOffset.
C14_RangeBounds ==
  Scanning =>
    \A i \in 1..Len(index.members) :
      LET m == index.members[i]
      IN 0 <= m.start /\ m.start <= m.end /\ m.end < currentOffset

\* Mid-scan of an unsorted log with a blank line, a range recorded.
C14_Witness ==
  /\ pc = "scan"
  /\ rlLines # <<>>
  /\ Len(index.members) = 1
  /\ \E s \in LineStarts(logFile) : LineText(logFile, s) = <<>>
  /\ ~Sorted(logFile)

Whole(file) == ~file.exists \/ IsMapping(file.text)

\* C15: an invocation that starts with the artifact absent or whole has, at
\* each of its steps, the artifact as it was or the complete serialization
\* of the index it built.
C15_ArtifactWhole ==
  (pc # "idle" /\ Whole(atStart.indexFile)) =>
    \/ indexFile = atStart.indexFile
    \/ indexFile = FileOf(Stringify(index))

\* Bytes start..end of the file, as far as the file goes.
RangeBytes(f, start, end) ==
  [i \in 1..(Min(end, Len(f) - 1) - start + 1) |-> f[start + i]]

\* C17: an invocation that loads the artifact and finds the target date in
\* it extracts, without error, rebuild or write of the artifact, whatever
\* lines or fragments bytes [start, end] of the current log hold; a range
\* that starts at or after the end of the log gives an output file with no
\* line.
C17_StaleRange ==
  (pc = "done" /\ ~run.scanned /\ index.type = "object"
     /\ HasKey(index.members, targetDate)) =>
    LET m == Member(index.members, targetDate)
        lines == SplitLines(Decode(RangeBytes(logFile, m.start, m.end)))
    IN /\ run.result = "extracted"
       /\ ~run.wrote /\ indexFile = atStart.indexFile
       /\ outputFile[targetDate].exists
       /\ outputFile[targetDate].lines = [k \in 1..Len(lines) |-> ExpectedLine(lines[k])]
       /\ m.start >= Len(logFile) => outputFile[targetDate].lines = <<>>

\* The artifact is not the index of the log, and a line of the output is a
\* fragment: the transform of no line of the log.
C17_Witness ==
  /\ pc = "done" /\ ~run.scanned /\ run.result = "extracted"
  /\ index # Obj(buildIndex(logFile))
  /\ \E k \in 1..Len(outputFile[targetDate].lines) :
       \A j \in 1..Len(LogLines(logFile)) :
         outputFile[targetDate].lines[k] # ExpectedLine(LogLines(logFile)[j])

\* The range of the artifact lies beyond the end of the log: no line.
C17_BeyondEnd ==
  /\ pc = "done" /\ ~run.scanned /\ run.result = "extracted"
  /\ Member(index.members, targetDate).start >= Len(logFile)
  /\ logFile # <<>>
  /\ outputFile[targetDate] = [exists |-> TRUE, lines |-> <<>>]

====
